---- MODULE Spec2Model ----
(***************************************************************************)
(* Grocery Manager & Inventory Tracker (src/grocery_app.py).               *)
(*                                                                         *)
(* GroceryItem / GroceryList / PurchaseHistory and the Streamlit flow      *)
(* that drives them.  Prices are counted in tenths of a currency unit      *)
(* (the form's step), datetimes in ticks with TicksPerDay ticks per        *)
(* calendar day; an optional value is a sequence of length at most one     *)
(* (None is the empty sequence).  Every GroceryItem carries the ordinal    *)
(* of the add_item call that constructed it as its object identity; the    *)
(* purchase history holds references to items, kept as these identities.   *)
(* GroceryItem.__added_on is written once and read nowhere; it is left     *)
(* out of the item record.                                                 *)
(***************************************************************************)
EXTENDS Integers, Sequences, FiniteSets, TLC

VARIABLES items, history, total_spent, now, addCalls, call

vars == <<items, history, total_spent, now, addCalls, call>>

\* ---------------------------------------------------------------- bounds
MaxItems == 3
TicksPerDay == 2
MaxTicks == 2
\* the calendar day the session starts on
StartDay == 1

\* days=3 is the default window of is_expiring_soon and get_expiring_items
DefaultDays == 3

\* the runs that also exercise the ledger or the clock hold one item fewer
FewItems == MaxItems - 1
MaxPurchases == MaxItems

None == <<>>
Some(x) == <<x>>

\* ---------------------------------------------------------------- inputs
\* names are strings, kept as sequences of characters so that lower() acts
Names == { <<"M", "k">>, <<"m", "k">>, <<"E", "g">> }
Categories == { "dairy" }
\* add_item validates nothing: a negative price passes through
Prices == { -1, 1, 2 }
\* st.number_input("Price", min_value=0.0, step=0.1)
FormPrices == { 0, 2 }
StartNow == StartDay * TicksPerDay
\* yesterday, today, the last day of the default window, the day after it
Dates == { StartDay - 1, StartDay, StartDay + DefaultDays, StartDay + DefaultDays + 1 }
\* midnight of each date, and the last tick of yesterday and of the window's last day
DateTimes ==
    { d * TicksPerDay : d \in Dates } \cup
    { d * TicksPerDay + (TicksPerDay - 1) : d \in { StartDay - 1, StartDay + DefaultDays } }
QueryDays == { -1, 0, DefaultDays }

\* ---------------------------------------------------------------- helpers
LowerChar(c) ==
    CASE c = "M" -> "m"
      [] c = "E" -> "e"
      [] OTHER -> c

\* str.lower()
Lower(s) == [i \in DOMAIN s |-> LowerChar(s[i])]

\* datetime.date(): the calendar day a datetime falls in
DateOf(t) == t \div TicksPerDay

\* datetime.combine(expiry, datetime.min.time())
Combine(d) == d * TicksPerDay

\* GroceryItem.__init__
GroceryItem(id, name, category, price, expiry_date) ==
    [ id |-> id, name |-> name, category |-> category, price |-> price,
      bought |-> FALSE, expiry_date |-> expiry_date ]

\* GroceryItem.mark_as_bought
ItemMarkAsBought(item) == [item EXCEPT !.bought = TRUE]

\* the raw-timestamp variant: (expiry - now).days <= days, no lower bound
IsExpiringSoon_Raw(item, days, t) ==
    IF item.expiry_date = None
    THEN FALSE
    ELSE (item.expiry_date[1] - t) \div TicksPerDay <= days

\* GroceryItem.is_expiring_soon, evaluated at time t
IsExpiringSoon(item, days, t) ==
    IF item.expiry_date = None
    THEN FALSE
    ELSE LET d == DateOf(item.expiry_date[1]) - DateOf(t)
         IN  0 <= d /\ d <= days

\* the scan's condition without 'and not item.is_bought()'
Matches_IgnoreBought(item, name) == Lower(item.name) = Lower(name)

\* the condition of the scan in GroceryList.mark_as_bought
Matches(item, name) == Lower(item.name) = Lower(name) /\ ~item.bought

RECURSIVE ScanFrom(_, _, _)
ScanFrom(its, name, i) ==
    IF i > Len(its) THEN 0
    ELSE IF Matches(its[i], name) THEN i
    ELSE ScanFrom(its, name, i + 1)

RECURSIVE ScanBack(_, _, _)
ScanBack(its, name, i) ==
    IF i < 1 THEN 0
    ELSE IF Matches(its[i], name) THEN i
    ELSE ScanBack(its, name, i - 1)

\* the loop running over reversed(self.__items)
FindPending_Last(its, name) == ScanBack(its, name, Len(its))

\* index of the item the loop of GroceryList.mark_as_bought stops at, 0 if none
FindPending(its, name) == ScanFrom(its, name, 1)

\* self.__items.insert(0, item)
AppendItem_Front(its, item) == <<item>> \o its

\* self.__items.append(item)
AppendItem(its, item) == Append(its, item)

\* the loop writing the flag of every item it visits: bought only where it stops
MarkAt_Select(its, idx) == [i \in DOMAIN its |-> [its[i] EXCEPT !.bought = (i = idx)]]

\* the list after the loop of GroceryList.mark_as_bought stopped at idx
MarkAt(its, idx) == [its EXCEPT ![idx] = ItemMarkAsBought(its[idx])]

\* the filter comparing with != instead of ==
GetItems_Inverted(its, bought) ==
    IF bought = None THEN its
    ELSE SelectSeq(its, LAMBDA item : item.bought # bought[1])

\* GroceryList.get_items
GetItems(its, bought) ==
    IF bought = None THEN its
    ELSE SelectSeq(its, LAMBDA item : item.bought = bought[1])

\* the filter without '(include_bought or not item.is_bought())'
GetExpiringItems_All(its, days, include_bought, t) ==
    SelectSeq(its, LAMBDA item : IsExpiringSoon(item, days, t))

\* GroceryList.get_expiring_items
GetExpiringItems(its, days, include_bought, t) ==
    SelectSeq(its, LAMBDA item :
        IsExpiringSoon(item, days, t) /\ (include_bought \/ ~item.bought))

\* get_expiring_items(self, days=3, include_bought=True), arguments omitted
GetExpiringItemsDefault(its, t) == GetExpiringItems(its, DefaultDays, TRUE, t)

\* self.__history[date_str].append(item), on a defaultdict(list)
HistoryAppend(h, key, item) ==
    IF key \in DOMAIN h
    THEN [h EXCEPT ![key] = Append(@, item)]
    ELSE h @@ (key :> <<item>>)

\* self.__total_spent = item.get_price()
AddToTotal_Overwrite(total, item) == item.price

\* self.__total_spent += item.get_price()
AddToTotal(total, item) == total + item.price

Ids(its) == [i \in DOMAIN its |-> its[i].id]

RECURSIVE CountOver(_, _)
CountOver(h, keys) ==
    IF keys = {} THEN 0
    ELSE LET k == CHOOSE x \in keys : TRUE
         IN  Len(h[k]) + CountOver(h, keys \ {k})

\* number of items held by the purchase history, over all dates
PurchaseCount == CountOver(history, DOMAIN history)

\* the GroceryItem objects recorded so far, over all dates
Recorded == UNION { { history[k][j] : j \in DOMAIN history[k] } : k \in DOMAIN history }

ItemOf(id) == items[CHOOSE i \in DOMAIN items : items[i].id = id]

\* ---------------------------------------------------------------- state
Init ==
    /\ items = <<>>
    /\ history = <<>>
    /\ total_spent = 0
    /\ now = StartNow
    /\ addCalls = 0
    /\ call = [op |-> "init", args |-> <<>>, ret |-> None]

\* GroceryList.add_item
AddItem(name, category, price, expiry_date) ==
    /\ Len(items) < MaxItems
    /\ items' = AppendItem(items,
                    GroceryItem(addCalls + 1, name, category, price, expiry_date))
    /\ addCalls' = addCalls + 1
    /\ call' = [op |-> "add_item", args |-> <<name, category, price, expiry_date>>,
                ret |-> None]
    /\ UNCHANGED <<history, total_spent, now>>

\* GroceryList.mark_as_bought
MarkAsBought(name) ==
    LET idx == FindPending(items, name)
    IN  /\ items' = IF idx = 0 THEN items ELSE MarkAt(items, idx)
        /\ call' = [op |-> "mark_as_bought", args |-> <<name>>,
                    ret |-> IF idx = 0 THEN None ELSE Some(items[idx].id)]
        /\ UNCHANGED <<history, total_spent, now, addCalls>>

\* PurchaseHistory.record_purchase
RecordPurchase(i) ==
    /\ i \in DOMAIN items
    /\ PurchaseCount < MaxPurchases
    /\ history' = HistoryAppend(history, DateOf(now), items[i].id)
    /\ total_spent' = AddToTotal(total_spent, items[i])
    /\ call' = [op |-> "record_purchase", args |-> <<items[i].id>>, ret |-> None]
    /\ UNCHANGED <<items, now, addCalls>>

\* a call of GroceryList.get_items
CallGetItems(bought) ==
    /\ call' = [op |-> "get_items", args |-> <<bought>>,
                ret |-> Ids(GetItems(items, bought))]
    /\ UNCHANGED <<items, history, total_spent, now, addCalls>>

\* a call of GroceryItem.is_expiring_soon
CallIsExpiringSoon(i, days) ==
    /\ i \in DOMAIN items
    /\ call' = [op |-> "is_expiring_soon", args |-> <<items[i].id, days>>,
                ret |-> IsExpiringSoon(items[i], days, now)]
    /\ UNCHANGED <<items, history, total_spent, now, addCalls>>

\* a call of GroceryList.get_expiring_items
CallGetExpiringItems(days, include_bought) ==
    /\ call' = [op |-> "get_expiring_items", args |-> <<days, include_bought>>,
                ret |-> Ids(GetExpiringItems(items, days, include_bought, now))]
    /\ UNCHANGED <<items, history, total_spent, now, addCalls>>

\* a call of get_expiring_items() with both arguments left to their defaults
CallGetExpiringItemsDefault ==
    /\ call' = [op |-> "get_expiring_items_default", args |-> <<>>,
                ret |-> Ids(GetExpiringItemsDefault(items, now))]
    /\ UNCHANGED <<items, history, total_spent, now, addCalls>>

\* datetime.now() advances
Tick ==
    /\ now < StartNow + MaxTicks
    /\ now' = now + 1
    /\ call' = [op |-> "tick", args |-> <<>>, ret |-> None]
    /\ UNCHANGED <<items, history, total_spent, addCalls>>

\* sidebar: the 'Add Item' button
AppAddItem(name, category, price, expiry) ==
    AddItem(name, category, price, Some(Combine(expiry)))

\* the i-th 'Mark as Bought' button of the pending section
AppBuyClick(i) ==
    LET pending_items == GetItems(items, Some(FALSE))
    IN  /\ i \in DOMAIN pending_items
        /\ LET idx == FindPending(items, pending_items[i].name)
           IN  /\ items' = IF idx = 0 THEN items ELSE MarkAt(items, idx)
               /\ history' = IF idx = 0 THEN history
                             ELSE HistoryAppend(history, DateOf(now), items[idx].id)
               /\ total_spent' = IF idx = 0 THEN total_spent
                                 ELSE AddToTotal(total_spent, items[idx])
               /\ call' = [op |-> "buy_click", args |-> <<pending_items[i].id>>,
                           ret |-> IF idx = 0 THEN None ELSE Some(items[idx].id)]
        /\ UNCHANGED <<now, addCalls>>

\* the list alone
ListNext ==
    \/ \E n \in Names, c \in Categories, p \in FormPrices : AddItem(n, c, p, None)
    \/ \E n \in Names : MarkAsBought(n)
    \/ \E b \in {None, Some(TRUE), Some(FALSE)} : CallGetItems(b)

ListSpec == Init /\ [][ListNext]_vars

\* the list and the ledger, called in any order
Next ==
    \/ /\ Len(items) < FewItems
       /\ \E n \in { <<"M", "k">> }, c \in Categories, p \in Prices : AddItem(n, c, p, None)
    \/ \E n \in Names : MarkAsBought(n)
    \/ \E i \in 1 .. MaxItems : RecordPurchase(i)
    \/ Tick

Spec == Init /\ [][Next]_vars

\* the list and the clock
ExpiryNext ==
    \/ /\ Len(items) < FewItems
       /\ \E c \in Categories, e \in { None } \cup { Some(t) : t \in DateTimes } :
              AddItem(<<"M", "k">>, c, 1, e)
    \/ MarkAsBought(<<"m", "k">>)
    \/ \E i \in 1 .. MaxItems, d \in QueryDays : CallIsExpiringSoon(i, d)
    \/ \E d \in QueryDays, b \in BOOLEAN : CallGetExpiringItems(d, b)
    \/ CallGetExpiringItemsDefault
    \/ Tick

ExpirySpec == Init /\ [][ExpiryNext]_vars

\* the Streamlit script, one rerun per click
AppNext ==
    \/ \E n \in Names, c \in Categories, p \in FormPrices : AppAddItem(n, c, p, StartDay)
    \/ \E i \in 1 .. MaxItems : AppBuyClick(i)
    \/ Tick

AppSpec == Init /\ [][AppNext]_vars

\* ---------------------------------------------------------------- properties
\* the letters that are each other's upper and lower case
CasePairs == { {"M", "m"}, {"E", "e"} }

\* two names equal up to the case of their letters
EqIgnoreCase(a, b) ==
    /\ Len(a) = Len(b)
    /\ \A i \in DOMAIN a : a[i] = b[i] \/ {a[i], b[i]} \in CasePairs

\* positions of the pending items named n, case-insensitively
PendingMatches(n) ==
    { i \in DOMAIN items : ~items[i].bought /\ EqIgnoreCase(items[i].name, n) }

Least(S) == CHOOSE i \in S : \A j \in S : i <= j

\* the calendar day of tick t: the d with d * TicksPerDay <= t < (d + 1) * TicksPerDay
CalendarDay(t) ==
    CHOOSE d \in 0 .. t : d * TicksPerDay <= t /\ t < (d + 1) * TicksPerDay

Range(s) == { s[i] : i \in DOMAIN s }

Increasing(s) == \A i, j \in DOMAIN s : i < j => s[i] < s[j]

RECURSIVE SumIds(_)
SumIds(s) == IF s = <<>> THEN 0 ELSE ItemOf(s[1]).price + SumIds(Tail(s))

RECURSIVE SumHistory(_)
SumHistory(keys) ==
    IF keys = {} THEN 0
    ELSE LET k == CHOOSE x \in keys : TRUE
         IN  SumIds(history[k]) + SumHistory(keys \ {k})

RECURSIVE SumBought(_)
SumBought(its) ==
    IF its = <<>> THEN 0
    ELSE (IF its[1].bought THEN its[1].price ELSE 0) + SumBought(Tail(its))

BoughtIds == { items[i].id : i \in { j \in DOMAIN items : items[j].bought } }

\* C1: get_total_spent() is the sum of the prices of the items passed to
\* record_purchase, one term per call (0 before the first call); each call adds
\* exactly the price of its item.
C1_TotalIsSumOfRecorded == total_spent = SumHistory(DOMAIN history)

\* C1 witness: several purchases recorded, one item among them more than once
C1_Witness ==
    /\ PurchaseCount >= 2
    /\ Cardinality(Recorded) < PurchaseCount
    /\ total_spent # 0

\* C2: with two or more pending items of that name (case-insensitive),
\* mark_as_bought(name) sets the flag of the first of them in insertion order and
\* returns it; every other item, the length and the order are as before.
C2_MarksFirstPending ==
    [][\A n \in Names :
         (/\ call'.op = "mark_as_bought"
          /\ call'.args = <<n>>
          /\ Cardinality(PendingMatches(n)) >= 2)
         => LET f == Least(PendingMatches(n))
            IN  /\ call'.ret = Some(items[f].id)
                /\ Len(items') = Len(items)
                /\ items'[f] = [items[f] EXCEPT !.bought = TRUE]
                /\ \A i \in DOMAIN items : i # f => items'[i] = items[i]]_vars

\* C2 witness: mark_as_bought returned an item while a later item of the same
\* name, typed in another case, stays pending
C2_Witness ==
    /\ call.op = "mark_as_bought"
    /\ call.ret # None
    /\ \E i, j \in DOMAIN items :
         /\ i < j
         /\ items[i].id = call.ret[1]
         /\ items[i].bought
         /\ ~items[j].bought
         /\ items[j].name # items[i].name
         /\ EqIgnoreCase(items[j].name, call.args[1])

\* C3: with no pending item of that name (case-insensitive), mark_as_bought(name)
\* returns None and changes no item, nor the list, nor the purchase total.
C3_MissReturnsNone ==
    [][\A n \in Names :
         (/\ call'.op = "mark_as_bought"
          /\ call'.args = <<n>>
          /\ PendingMatches(n) = {})
         => /\ call'.ret = None
            /\ items' = items
            /\ total_spent' = total_spent
            /\ history' = history]_vars

\* C3 witness: mark_as_bought returned None for a name whose item is already bought
C3_Witness ==
    /\ call.op = "mark_as_bought"
    /\ call.ret = None
    /\ \E i \in DOMAIN items : items[i].bought /\ EqIgnoreCase(items[i].name, call.args[1])

\* C4: get_items(None) is the items in insertion order, as many as add_item was
\* called; add_item appends one pending item and leaves the earlier ones as they
\* are; nothing else changes the length or the order.
C4_InsertionOrder ==
    [][/\ Len(items') = addCalls'
       /\ \A i \in DOMAIN items' : items'[i].id = i
       /\ (call'.op = "get_items" /\ call'.args[1] = None)
            => call'.ret = [i \in 1 .. addCalls' |-> i]
       /\ call'.op = "add_item"
            => /\ addCalls' = addCalls + 1
               /\ SubSeq(items', 1, Len(items)) = items
               /\ ~items'[Len(items')].bought
               /\ items'[Len(items')].name = call'.args[1]
               /\ items'[Len(items')].price = call'.args[3]
       /\ call'.op # "add_item"
            => /\ addCalls' = addCalls
               /\ Ids(items') = Ids(items)]_vars

\* C4 witness: get_items(None) returned several items, one of them bought
C4_Witness ==
    /\ call.op = "get_items"
    /\ call.args[1] = None
    /\ Len(call.ret) >= 2
    /\ \E i \in DOMAIN items : items[i].bought

\* C5: the purchase total never decreases, whatever price add_item was given, and
\* only record_purchase changes it.
C5_TotalNeverDecreases ==
    [][/\ total_spent' >= total_spent
       /\ total_spent' # total_spent => call'.op = "record_purchase"]_vars

\* C6: an item that is bought stays in the list and stays bought.
C6_BoughtStaysBought ==
    [][\A i \in DOMAIN items :
         items[i].bought
         => /\ i \in DOMAIN items'
            /\ items'[i].id = items[i].id
            /\ items'[i].bought]_vars

\* C6 witness: mark_as_bought bought one item after another was already bought
C6_Witness ==
    /\ call.op = "mark_as_bought"
    /\ call.ret # None
    /\ \E i \in DOMAIN items : items[i].bought /\ items[i].id # call.ret[1]

\* C7: is_expiring_soon(days) is False without an expiry date, and otherwise True
\* exactly when 0 <= (expiry's calendar day - today's calendar day) <= days.
C7_ExpiringSoonWindow ==
    call.op = "is_expiring_soon"
    => LET item == ItemOf(call.args[1])
           days == call.args[2]
           today == CalendarDay(now)
       IN  IF item.expiry_date = None
           THEN call.ret = FALSE
           ELSE LET expiry == CalendarDay(item.expiry_date[1])
                IN  /\ call.ret = (0 <= expiry - today /\ expiry - today <= days)
                    /\ (expiry = today /\ days >= 0) => call.ret = TRUE
                    /\ expiry = today + days + 1 => call.ret = FALSE
                    /\ expiry < today => call.ret = FALSE

\* C7 witness: an item whose expiry datetime is already behind the clock, on the
\* same calendar day, is reported as expiring soon
C7_Witness ==
    /\ call.op = "is_expiring_soon"
    /\ call.ret = TRUE
    /\ ItemOf(call.args[1]).expiry_date[1] < now

\* C8: get_items(True) and get_items(False) are, in insertion order, the items
\* whose bought state is the filter; they share no item and together hold every
\* item once.
C8_FilterPartition ==
    LET b == Ids(GetItems(items, Some(TRUE)))
        p == Ids(GetItems(items, Some(FALSE)))
    IN  /\ Increasing(b) /\ Increasing(p)
        /\ Range(b) = BoughtIds
        /\ Range(p) = Range(Ids(items)) \ BoughtIds
        /\ Range(b) \cap Range(p) = {}
        /\ Len(b) + Len(p) = Len(items)
        /\ call.op = "get_items" /\ call.args[1] = Some(TRUE) => call.ret = b
        /\ call.op = "get_items" /\ call.args[1] = Some(FALSE) => call.ret = p

\* C8 witness: get_items(True) returned some items and left others out
C8_Witness ==
    /\ call.op = "get_items"
    /\ call.args[1] = Some(TRUE)
    /\ call.ret # <<>>
    /\ Len(call.ret) < Len(items)

\* the ids get_expiring_items is to return
ExpectedExpiring(days, include_bought) ==
    { items[i].id : i \in { j \in DOMAIN items :
          /\ IsExpiringSoon(items[j], days, now)
          /\ (include_bought \/ ~items[j].bought) } }

\* the part of C9 on explicit arguments
ExplicitArgs ==
    call.op = "get_expiring_items"
    => /\ Increasing(call.ret)
       /\ Range(call.ret) = ExpectedExpiring(call.args[1], call.args[2])

\* C9 as stated: get_expiring_items(days, include_bought) returns, in insertion
\* order, the items is_expiring_soon(days) holds for, without the bought ones when
\* include_bought is false; with its default arguments it returns pending items only.
C9_DefaultPendingOnly ==
    /\ ExplicitArgs
    /\ call.op = "get_expiring_items_default"
       => /\ Increasing(call.ret)
          /\ Range(call.ret) = ExpectedExpiring(DefaultDays, FALSE)

\* C9 amended: as above, but with its default arguments (days=3,
\* include_bought=True) it returns the bought items expiring soon as well.
C9_DefaultIncludesBought ==
    /\ ExplicitArgs
    /\ call.op = "get_expiring_items_default"
       => /\ Increasing(call.ret)
          /\ Range(call.ret) = ExpectedExpiring(DefaultDays, TRUE)

\* C9 witness: the default call returned a bought item next to a pending one
C9_Witness ==
    /\ call.op = "get_expiring_items_default"
    /\ \E i, j \in DOMAIN items :
         /\ items[i].id \in Range(call.ret) /\ items[i].bought
         /\ items[j].id \in Range(call.ret) /\ ~items[j].bought

\* every bought item is in the purchase history once, and the total is their prices
Accounted ==
    /\ PurchaseCount = Cardinality(BoughtIds)
    /\ Recorded = BoughtIds
    /\ total_spent = SumBought(items)

\* C10: in the app every bought item is recorded exactly once and the total is the
\* sum of the bought items' prices; a click on a pending item's button buys
\* exactly one item and records exactly one purchase.
C10_EveryBoughtRecordedOnce ==
    [][/\ Accounted'
       /\ call'.op = "buy_click"
            => /\ call'.ret # None
               /\ Cardinality({ i \in DOMAIN items : items'[i] # items[i] }) = 1
               /\ Len(items') = Len(items)
               /\ BoughtIds' = BoughtIds \cup { call'.ret[1] }
               /\ call'.ret[1] \notin BoughtIds
               /\ PurchaseCount' = PurchaseCount + 1]_vars

\* C10 witness: a click on one of several pending items of a name bought another
\* item of that name, and the books still balance
C10_Witness ==
    /\ call.op = "buy_click"
    /\ call.ret # None
    /\ call.ret[1] # call.args[1]
    /\ Accounted
====
